---- MODULE Spec2Model ----
(***************************************************************************)
(* Model of the caption core of subtitle-ninja:                            *)
(*   - VideoProcessor.create_word_groups   (workflows/process_video.py)    *)
(*   - ASSRenderer                         (workflows/ass_renderer.py)     *)
(*   - StyleConfig / StylePresets          (workflows/style_config.py)     *)
(*   - the two time encoders               (process_video.py)              *)
(*   - the colour converters               (workflows/style_config.py)     *)
(*   - VideoProcessor.process              (workflows/process_video.py)    *)
(*   - process_video_task, the job record  (workflows/celery_app.py)       *)
(*   - the upload/status/download handlers (api/main.py)                   *)
(*                                                                         *)
(* Conventions.  Times are held as whole milliseconds: the integer t       *)
(* stands for the Python float nearest to t/1000.  Ratios of StyleConfig   *)
(* are held in thousandths (0.055 is 55).  Text is built with \o exactly   *)
(* as the f-strings of the source build it; a subtitle file is the         *)
(* sequence of its lines (text.split("\n")), each line a record            *)
(* [tag, fields] standing for  tag ": " fields joined by ","  (tag "" for  *)
(* a line that has no descriptor).  A colour string given to the          *)
(* converters is the sequence of its characters.  A dictionary (the job    *)
(* record, Redis, the file system) is a function whose domain is the set   *)
(* of its keys.                                                            *)
(***************************************************************************)
EXTENDS Integers, Sequences, FiniteSets, TLC

VARIABLES
    pc,                 \* position of the call being modelled
    words,              \* create_word_groups: argument words
    words_per_group,    \* create_word_groups: argument words_per_group
    grouped_segments,   \* create_word_groups: returned list
    preset_name,        \* get_preset: argument
    style,              \* the StyleConfig in use
    segments,           \* render_subtitles: argument segments
    height,             \* render_subtitles: argument height
    ass_content,        \* render_subtitles: text written to the .ass file
    seconds,            \* time encoders: argument (milliseconds)
    ass_time,           \* seconds_to_ass_time: returned string
    srt_time,           \* seconds_to_srt_time: returned string
    colour_in,          \* colour converters: argument (sequence of characters)
    ass_colour,         \* convert_hex_to_ass_color: returned string
    hex_colour,         \* convert_ass_to_hex_color: returned string
    run,                \* VideoProcessor.process: per job id, position and locals
    files,              \* the file system: path -> [writer, text]
    job_store,          \* Redis: job id -> job_data dictionary
    task,               \* process_video_task: dispatch state and request.retries
    writes,             \* record updates of the current attempt, in order
    response,           \* last HTTP response of the status/download handlers
    heap,               \* objects built by the StylePresets accessors
    returned            \* last StylePresets call and the value it returned

vars == <<pc, words, words_per_group, grouped_segments, preset_name, style,
          segments, height, ass_content, seconds, ass_time, srt_time,
          colour_in, ass_colour, hex_colour,
          run, files, job_store, task, writes, response, heap, returned>>

grouperVars == <<words, words_per_group, grouped_segments>>
compilerVars == <<preset_name, style, segments, height, ass_content>>
timeVars == <<seconds, ass_time, srt_time>>
colourVars == <<colour_in, ass_colour, hex_colour>>
pipelineVars == <<run, files, job_store, task, writes, response>>
catalogVars == <<heap, returned>>
coreVars == <<pc, grouperVars, compilerVars, timeVars, colourVars, catalogVars>>

(***************************************************************************)
(* Bounds of the model.                                                    *)
(***************************************************************************)
MaxWords == 3           \* longest word sequence given to the grouper
MaxGroup == 4           \* largest words_per_group
MaxSegWords == 2        \* longest word sequence behind a compiled track
MaxHours == 1           \* largest hour count given to the time encoders
MaxColourLen == 7       \* most characters after the prefix of a colour string
MaxTranscript == 4      \* most words in the transcript of a processed video
MaxObjects == 3         \* most objects handed out by the StylePresets accessors

Times == {0, 500, 1200, 1800}
Texts == {"hello", "there", "friend"}

Max(a, b) == IF a >= b THEN a ELSE b
Min(a, b) == IF a <= b THEN a ELSE b

\* " ".join(parts) / ",".join(parts)
RECURSIVE Join(_, _)
Join(parts, sep) ==
    IF parts = <<>> THEN ""
    ELSE IF Len(parts) = 1 THEN parts[1]
    ELSE parts[1] \o sep \o Join(Tail(parts), sep)

(***************************************************************************)
(* Word Grouper: VideoProcessor.create_word_groups                         *)
(***************************************************************************)
\* A transcribed word: end > start.
Word == {w \in [start : Times, end : Times, text : Texts] : w.start < w.end}

\* The transcription hands the words over ordered by start.
WellFormedWords(W) ==
    \A i \in 1..(Len(W) - 1) : W[i].start <= W[i + 1].start

WordSeqs(n) ==
    {W \in UNION {[1..m -> Word] : m \in 0..n} : WellFormedWords(W)}

\* Word lists no transcription produces but a caller can pass: a negative
\* timestamp, an end before the start.
ErrorWordSeqs ==
    {<<[start |-> -500, end |-> 0, text |-> "hello"]>>,
     <<[start |-> 1200, end |-> 500, text |-> "there"]>>,
     <<[start |-> 0, end |-> 500, text |-> "hello"],
       [start |-> 1800, end |-> 1200, text |-> "friend"]>>,
     <<[start |-> -500, end |-> -1200, text |-> "hello"],
       [start |-> 500, end |-> 1200, text |-> "there"]>>}

\* group_end of the segment anchored at i (1-based)
group_end_late(W, i) == W[i].end
group_end(W, i) ==
    IF i + 1 <= Len(W) THEN W[i + 1].start ELSE W[i].end

\* the inner loop: for j in range(words_per_group): if i + j < len(words)
group_words_short(W, i, k) ==
    [j \in 1..Min(k - 1, Len(W) - i + 1) |-> W[i + j - 1].text]
group_words(W, i, k) ==
    [j \in 1..Max(0, Min(k, Len(W) - i + 1)) |-> W[i + j - 1].text]

create_word_groups(W, k) ==
    IF W = <<>> THEN <<>>
    ELSE [i \in 1..Len(W) |->
            LET gw == group_words(W, i, k) IN
            [start |-> W[i].start,
             end |-> group_end(W, i),
             words |-> gw,
             current_word_index |-> 0,
             current_word |-> IF gw # <<>> THEN gw[1] ELSE "",
             display_text |-> Join(gw, " ")]]

(***************************************************************************)
(* Time encoders.                                                          *)
(*                                                                         *)
(* The argument is a Python float.  For the float d nearest to t/1000      *)
(* (t whole milliseconds) the floor divisions and the remainders by 3600,  *)
(* 60 and 1 are exact, so hours, minutes and secs are those of t.  The     *)
(* product (seconds % 1) * M is rounded to a float again before int()      *)
(* truncates it, and d itself is t/1000 rounded to 53 bits: with           *)
(*   e = floor(log2(t/1000)),  k = 52 - e,  r = (t * 2^k) mod 1000         *)
(* d lies r / (1000 * 2^k) below t/1000 when 0 < r < 500 and at or above   *)
(* it otherwise (r = 500 cannot happen), and the product then lies         *)
(* r * M / (1000 * 2^k) below the decimal value m * M / 1000.              *)
(***************************************************************************)
RECURSIVE Pow2(_)
Pow2(n) == IF n <= 0 THEN 1 ELSE 2 * Pow2(n - 1)

RECURSIVE Pow2Mod(_, _)
Pow2Mod(n, m) ==
    IF n <= 0 THEN 1 % m
    ELSE IF n % 2 = 1 THEN (2 * Pow2Mod(n - 1, m)) % m
    ELSE LET half == Pow2Mod(n \div 2, m) IN (half * half) % m

RECURSIVE FloorLog2(_)
FloorLog2(n) == IF n < 2 THEN 0 ELSE 1 + FloorLog2(n \div 2)

RECURSIVE ShiftsToUnit(_)
ShiftsToUnit(t) == IF t >= 1000 THEN 0 ELSE 1 + ShiftsToUnit(2 * t)

\* binary exponent of the float nearest to t/1000, t >= 1
DoubleExp(t) == IF t >= 1000 THEN FloorLog2(t \div 1000) ELSE 0 - ShiftsToUnit(t)

\* (t * 2^k) mod 1000: what rounding t/1000 to 53 bits cuts off
RoundRem(t) == ((t % 1000) * Pow2Mod(52 - DoubleExp(t), 1000)) % 1000

\* int((seconds % 1) * M) for M = 100 (centisecs) and M = 1000 (millisecs)
int_frac_times(t, M) ==
    LET m == t % 1000
        u == 1000 \div M
        c == m \div u
        r == RoundRem(t)
        \* exponent of the floats just below c
        E == IF Pow2(FloorLog2(c)) = c THEN FloorLog2(c) - 1 ELSE FloorLog2(c)
        x == E - DoubleExp(t) - 1
        \* the product rounds back up to c (ties go to c, whose mantissa is even)
        roundsToC == IF x >= 0 THEN r <= u * Pow2(x)
                     ELSE IF x <= -4 THEN FALSE
                     ELSE r * Pow2(0 - x) <= u
    IN  IF t = 0 \/ r = 0 \/ r > 500 \/ m % u # 0 THEN c
        ELSE IF roundsToC THEN c ELSE c - 1

\* f"{n:02d}" and f"{n:03d}" for n >= 0
Fmt02(n) == IF n < 10 THEN "0" \o ToString(n) ELSE ToString(n)
Fmt03(n) == IF n < 10 THEN "00" \o ToString(n)
            ELSE IF n < 100 THEN "0" \o ToString(n) ELSE ToString(n)

\* VideoProcessor.seconds_to_ass_time
seconds_to_ass_time(t) ==
    LET hours == t \div 3600000
        minutes == (t % 3600000) \div 60000
        secs == (t % 60000) \div 1000
        centisecs == int_frac_times(t, 100)
    IN  ToString(hours) \o ":" \o Fmt02(minutes) \o ":" \o Fmt02(secs)
            \o "." \o Fmt02(centisecs)

\* VideoProcessor.seconds_to_srt_time
seconds_to_srt_time(t) ==
    LET hours == t \div 3600000
        minutes == (t % 3600000) \div 60000
        secs == (t % 60000) \div 1000
        millisecs == int_frac_times(t, 1000)
    IN  Fmt02(hours) \o ":" \o Fmt02(minutes) \o ":" \o Fmt02(secs)
            \o "," \o Fmt03(millisecs)

\* ASSRenderer._seconds_to_ass_time
renderer_seconds_to_ass_time(t) ==
    LET hours == t \div 3600000
        minutes == (t % 3600000) \div 60000
        secs == (t % 60000) \div 1000
        centisecs == int_frac_times(t, 100)
    IN  ToString(hours) \o ":" \o Fmt02(minutes) \o ":" \o Fmt02(secs)
            \o "." \o Fmt02(centisecs)

\* the times given to the encoders
TimesMs ==
    {h * 3600000 + mi * 60000 + s * 1000 + ms :
        h \in 0..MaxHours, mi \in {0, 2, 59}, s \in {0, 1, 5, 59}, ms \in 0..999}

(***************************************************************************)
(* Style Model: StyleConfig and StylePresets                               *)
(***************************************************************************)
\* the dataclass defaults
StyleConfig ==
    [font_family |-> "Arial", font_size_ratio |-> 50, font_weight |-> "bold",
     base_color |-> "&Hffffff", highlight_color |-> "&H00d7ff",
     outline_color |-> "&H000000",
     highlight_style |-> "color_change", outline_width |-> 2,
     glow_enabled |-> FALSE, glow_intensity |-> "none",
     words_per_line |-> 3, position |-> "bottom", alignment |-> 2,
     margin_ratio |-> 80,
     background_enabled |-> FALSE, background_color |-> "&H80000000",
     background_opacity |-> 80]

\* the dict literal of get_preset
presets ==
    [instagram_classic |->
        [StyleConfig EXCEPT !.font_family = "Arial", !.font_size_ratio = 50,
            !.base_color = "&Hffffff", !.highlight_color = "&H00d7ff",
            !.outline_color = "&H000000", !.highlight_style = "color_change",
            !.outline_width = 2, !.words_per_line = 3, !.position = "bottom",
            !.margin_ratio = 80],
     tiktok_viral |->
        [StyleConfig EXCEPT !.font_family = "Arial", !.font_size_ratio = 55,
            !.base_color = "&Hffffff", !.highlight_color = "&Hffff00",
            !.outline_color = "&H000000", !.highlight_style = "glow_pulse",
            !.outline_width = 1, !.glow_enabled = TRUE,
            !.glow_intensity = "strong", !.words_per_line = 4,
            !.position = "bottom", !.margin_ratio = 70],
     youtube_professional |->
        [StyleConfig EXCEPT !.font_family = "Arial", !.font_size_ratio = 45,
            !.base_color = "&Hffffff", !.highlight_color = "&H0000ff",
            !.outline_color = "&H000000",
            !.highlight_style = "background_highlight", !.outline_width = 2,
            !.background_enabled = TRUE, !.background_color = "&H80000000",
            !.background_opacity = 70, !.words_per_line = 3,
            !.position = "bottom", !.margin_ratio = 90],
     minimalist |->
        [StyleConfig EXCEPT !.font_family = "Arial", !.font_size_ratio = 40,
            !.base_color = "&Hffffff", !.highlight_color = "&He2904a",
            !.outline_color = "&H404040", !.highlight_style = "scale_up",
            !.outline_width = 1, !.words_per_line = 3, !.position = "center",
            !.margin_ratio = 100],
     gaming |->
        [StyleConfig EXCEPT !.font_family = "Arial", !.font_size_ratio = 60,
            !.base_color = "&Hffffff", !.highlight_color = "&H00ff00",
            !.outline_color = "&H000000", !.highlight_style = "glow_pulse",
            !.outline_width = 3, !.glow_enabled = TRUE,
            !.glow_intensity = "strong", !.words_per_line = 2,
            !.position = "bottom", !.margin_ratio = 60]]

\* StylePresets.list_presets
list_presets ==
    <<"instagram_classic", "tiktok_viral", "youtube_professional",
      "minimalist", "gaming">>

\* presets.get(preset_name, presets["instagram_classic"])
get_preset_fallback_last(name) ==
    IF name \in DOMAIN presets THEN presets[name] ELSE presets["gaming"]
get_preset(name) ==
    IF name \in DOMAIN presets THEN presets[name]
    ELSE presets["instagram_classic"]

\* names handed to get_preset: the catalog's and some that are not in it
PresetNames ==
    {list_presets[i] : i \in 1..Len(list_presets)}
        \cup {"nonexistent_name", "", "Instagram_Classic", "default"}

HighlightStyles ==
    {"color_change", "scale_up", "glow_pulse", "background_highlight", "karaoke"}
GlowIntensities == {"none", "soft", "strong"}

(***************************************************************************)
(* Subtitle Compiler: ASSRenderer                                          *)
(***************************************************************************)
Line(tag, fields) == [tag |-> tag, fields |-> fields]
Plain(text) == Line("", <<text>>)
Blank == Plain("")

StylesFormat ==
    "Name, Fontname, Fontsize, PrimaryColour, SecondaryColour, OutlineColour, "
        \o "BackColour, Bold, Italic, Underline, StrikeOut, ScaleX, ScaleY, "
        \o "Spacing, Angle, BorderStyle, Outline, Shadow, Alignment, MarginL, "
        \o "MarginR, MarginV, Encoding"
EventsFormat ==
    "Layer, Start, End, Style, Name, MarginL, MarginR, MarginV, Effect, Text"

\* int(height * ratio), the ratio in thousandths
int_scale_round(h, ratio) == (h * ratio + 500) \div 1000
int_scale(h, ratio) == (h * ratio) \div 1000

\* ASSRenderer._get_highlight_scale
get_highlight_scale(st) ==
    IF st.highlight_style = "scale_up" THEN 120 ELSE 100

\* style.background_color if style.background_enabled else '&H80000000'
back_colour(st) ==
    IF st.background_enabled THEN st.background_color ELSE "&H80000000"

\* the two Style: lines of _generate_header
header_styles(font_size, margin_side, margin_bottom, st) ==
    <<Line("Style",
        <<"Default", st.font_family, ToString(font_size), st.base_color,
          st.base_color, st.outline_color, back_colour(st),
          "1", "0", "0", "0", "100", "100", "0", "0", "1",
          ToString(st.outline_width), "0", ToString(st.alignment),
          ToString(margin_side), ToString(margin_side),
          ToString(margin_bottom), "1">>),
      Line("Style",
        <<"Highlight", st.font_family, ToString(font_size),
          st.highlight_color, st.highlight_color, st.outline_color,
          back_colour(st),
          "1", "0", "0", "0", ToString(get_highlight_scale(st)),
          ToString(get_highlight_scale(st)), "0", "0", "1",
          ToString(st.outline_width), "0", ToString(st.alignment),
          ToString(margin_side), ToString(margin_side),
          ToString(margin_bottom), "1">>)>>

\* ASSRenderer._generate_header
generate_header(font_size, margin_side, margin_bottom, st) ==
    <<Plain("[Script Info]"),
      Line("Title", <<"Subtitle Ninja - " \o st.font_family>>),
      Line("ScriptType", <<"v4.00+">>),
      Blank,
      Plain("[V4+ Styles]"),
      Line("Format", <<StylesFormat>>)>>
    \o header_styles(font_size, margin_side, margin_bottom, st)
    \o <<Blank,
         Plain("[Events]"),
         Line("Format", <<EventsFormat>>)>>

\* the markup put around the first word, one definition per branch
color_change_markup(word, st) ==
    "{\\c" \o st.highlight_color \o "&}" \o word
        \o "{\\c" \o st.base_color \o "&}"

scale_up_markup(word, st) ==
    "{\\fscx" \o ToString(get_highlight_scale(st))
        \o "\\fscy" \o ToString(get_highlight_scale(st))
        \o "\\c" \o st.highlight_color \o "&}" \o word
        \o "{\\fscx100\\fscy100\\c" \o st.base_color \o "&}"

glow_markup(word, st) ==
    LET shadow_size == IF st.glow_intensity = "strong" THEN 3 ELSE 2
    IN  "{\\c" \o st.highlight_color \o "&\\3c" \o st.outline_color
            \o "&\\4c" \o st.highlight_color
            \o "&\\bord" \o ToString(st.outline_width)
            \o "\\shad" \o ToString(shadow_size) \o "}" \o word
            \o "{\\c" \o st.base_color \o "&\\3c" \o st.outline_color
            \o "&\\4c&H00000000&\\bord2\\shad0}"

glow_disabled_still_glows(word, st) == glow_markup(word, st)
glow_disabled_markup(word, st) ==
    "{\\c" \o st.highlight_color \o "&}" \o word
        \o "{\\c" \o st.base_color \o "&}"

background_markup(word, st) ==
    "{\\c" \o st.base_color \o "&\\3c" \o st.highlight_color
        \o "&\\bord6}" \o word
        \o "{\\3c" \o st.outline_color \o "&\\bord2}"

fallback_markup(word, st) ==
    "{\\c" \o st.highlight_color \o "&}" \o word
        \o "{\\c" \o st.base_color \o "&}"

\* the if / elif chain on style.highlight_style
highlight_word(word, st) ==
    IF st.highlight_style = "color_change" THEN color_change_markup(word, st)
    ELSE IF st.highlight_style = "scale_up" THEN scale_up_markup(word, st)
    ELSE IF st.highlight_style = "glow_pulse" THEN
        IF st.glow_enabled THEN glow_markup(word, st)
        ELSE glow_disabled_markup(word, st)
    ELSE IF st.highlight_style = "background_highlight" THEN
        background_markup(word, st)
    ELSE fallback_markup(word, st)

\* styled_parts of _create_styled_text
styled_parts_all(ws, st) ==
    [i \in 1..Len(ws) |-> highlight_word(ws[i], st)]
styled_parts(ws, st) ==
    [i \in 1..Len(ws) |-> IF i = 1 THEN highlight_word(ws[i], st) ELSE ws[i]]

\* ASSRenderer._create_styled_text
create_styled_text(segment, st) ==
    IF segment.words = <<>> THEN segment.display_text
    ELSE Join(styled_parts(segment.words, st), " ")

\* one dialogue_line of _generate_ass_content
dialogue_line(segment, st) ==
    Line("Dialogue",
         <<"0", renderer_seconds_to_ass_time(segment.start),
           renderer_seconds_to_ass_time(segment.end),
           "Default", "", "0", "0", "0", "",
           create_styled_text(segment, st)>>)

\* dialogue_lines of _generate_ass_content
dialogue_lines_reversed(segs, st) ==
    [j \in 1..Len(segs) |-> dialogue_line(segs[Len(segs) + 1 - j], st)]
dialogue_lines(segs, st) ==
    [j \in 1..Len(segs) |-> dialogue_line(segs[j], st)]

\* ASSRenderer._generate_ass_content: header + "\n".join(dialogue_lines)
generate_ass_content(segs, h, st) ==
    LET font_size == Max(int_scale(h, st.font_size_ratio), 16)
        margin_bottom == Max(int_scale(h, st.margin_ratio), 20)
        margin_side == 20
    IN  generate_header(font_size, margin_side, margin_bottom, st)
            \o (IF segs = <<>> THEN <<Blank>> ELSE dialogue_lines(segs, st))

\* ASSRenderer._generate_empty_ass_file
generate_empty_ass_file(st, h) ==
    LET font_size == Max(int_scale(h, st.font_size_ratio), 16)
        margin_bottom == Max(int_scale(h, st.margin_ratio), 20)
    IN  <<Plain("[Script Info]"),
          Line("Title", <<"Subtitle Ninja">>),
          Line("ScriptType", <<"v4.00+">>),
          Blank,
          Plain("[V4+ Styles]"),
          Line("Format", <<StylesFormat>>),
          Line("Style",
            <<"Default", st.font_family, ToString(font_size), st.base_color,
              st.base_color, st.outline_color, "&H80000000",
              "1", "0", "0", "0", "100", "100", "0", "0", "1",
              "2", "0", "2", "20", "20", ToString(margin_bottom), "1">>),
          Blank,
          Plain("[Events]"),
          Line("Format", <<EventsFormat>>),
          Line("Dialogue",
            <<"0", "0:00:00.00", "0:00:05.00", "Default", "", "0", "0", "0",
              "", "No speech detected">>),
          Blank>>

\* ASSRenderer.render_subtitles: the content written to the .ass file
render_subtitles_no_fallback(segs, h, st) == generate_ass_content(segs, h, st)
render_subtitles(segs, h, st) ==
    IF segs = <<>> THEN generate_empty_ass_file(st, h)
    ELSE generate_ass_content(segs, h, st)

\* the text of a line and of a file
LineText(l) == IF l.tag = "" THEN Join(l.fields, ",")
               ELSE l.tag \o ": " \o Join(l.fields, ",")
FileText(lines) == Join([i \in 1..Len(lines) |-> LineText(lines[i])], "\n")

(***************************************************************************)
(* Inputs of the compiler                                                  *)
(***************************************************************************)
Heights == {240, 720, 1080}
SegTexts == {"hello", "there"}
SegTimes == <<0, 290, 1001, 3725456, 3725999>>

\* word sequences whose i-th word runs from SegTimes[i] to SegTimes[i + 1]
SegWordSeqs ==
    UNION {{[i \in 1..n |->
                [start |-> SegTimes[i], end |-> SegTimes[i + 1], text |-> tx[i]]] :
            tx \in [1..n -> SegTexts]} : n \in 0..MaxSegWords}

\* the segment sequences given to the compiler: what the grouper returns
SegmentSeqs ==
    {create_word_groups(W, k) : W \in SegWordSeqs, k \in 0..MaxSegWords}

(***************************************************************************)
(* Colour conversion: convert_hex_to_ass_color, convert_ass_to_hex_color   *)
(* A colour string is held as the sequence of its characters.              *)
(***************************************************************************)
\* str.upper() on one character
Upper(c) ==
    CASE c = "a" -> "A" [] c = "b" -> "B" [] c = "c" -> "C" [] c = "d" -> "D"
      [] c = "e" -> "E" [] c = "f" -> "F" [] c = "g" -> "G" [] c = "h" -> "H"
      [] OTHER -> c
UpperAll(str) == [i \in 1..Len(str) |-> Upper(str[i])]

\* str.startswith(prefix)
StartsWith(str, prefix) ==
    /\ Len(str) >= Len(prefix)
    /\ SubSeq(str, 1, Len(prefix)) = prefix

\* f"&H{b}{g}{r}"
pack_bgr_unreversed(r, g, b) == <<"&", "H">> \o r \o g \o b
pack_bgr(r, g, b) == <<"&", "H">> \o b \o g \o r

convert_hex_to_ass_color(hex_color) ==
    LET h == IF StartsWith(hex_color, <<"#">>) THEN Tail(hex_color)
             ELSE hex_color
    IN  IF Len(h) = 6
        THEN pack_bgr(SubSeq(h, 1, 2), SubSeq(h, 3, 4), SubSeq(h, 5, 6))
        ELSE <<"&", "H", "f", "f", "f", "f", "f", "f">>

convert_ass_to_hex_color(ass_color) ==
    IF StartsWith(ass_color, <<"&", "H">>) /\ Len(ass_color) >= 8
    THEN LET color_part == SubSeq(ass_color, 3, 8)
             b == SubSeq(color_part, 1, 2)
             g == SubSeq(color_part, 3, 4)
             r == SubSeq(color_part, 5, 6)
         IN  UpperAll(<<"#">> \o r \o g \o b)
    ELSE <<"#", "F", "F", "F", "F", "F", "F">>

\* the colour strings given to the converters
ColourChars == {"1", "a", "F", "g"}
ColourPrefixes == {<<>>, <<"#">>, <<"&", "H">>}
ColourStrings ==
    {pre \o body : pre \in ColourPrefixes,
                   body \in UNION {[1..n -> ColourChars] : n \in 0..MaxColourLen}}

(***************************************************************************)
(* The processing pipeline: VideoProcessor.process, process_video_task,    *)
(* the job record in Redis and the temporary files.                        *)
(***************************************************************************)
Jobs == {"job1", "job2"}
None == "None"

\* ---- temporary and output files ----
ass_path_shared(job_id) == "/tmp/subtitles.ass"
ass_path(job_id) == "/tmp/subtitles_" \o job_id \o ".ass"
audio_path(job_id) == "/tmp/audio_" \o job_id \o ".wav"
output_filename(job_id, style_name) ==
    job_id \o "_" \o style_name \o "_with_subtitles.mp4"
output_path(job_id, style_name) ==
    "downloads/" \o output_filename(job_id, style_name)

NoFile == [writer |-> None, text |-> <<>>]
write_file(fs, path, content) ==
    [q \in DOMAIN fs \cup {path} |-> IF q = path THEN content ELSE fs[q]]
unlink(fs, path) == [q \in DOMAIN fs \ {path} |-> fs[q]]

\* ---- the job record ----
\* redis_client.set(f"job:{job_id}", json.dumps(job_data), ex=3600)
redis_set(store, job_id, job_data) ==
    [k \in DOMAIN store \cup {job_id} |->
        IF k = job_id THEN job_data ELSE store[k]]

\* update_job_status_redis; fields holds the arguments that are not None
update_job_status_redis(store, job_id, fields) ==
    LET job_data == IF job_id \in DOMAIN store THEN store[job_id] ELSE <<>>
    IN  redis_set(store, job_id, fields @@ job_data)

RECURSIVE update_all(_, _, _)
update_all(store, job_id, updates) ==
    IF updates = <<>> THEN store
    ELSE update_all(update_job_status_redis(store, job_id, Head(updates)),
                    job_id, Tail(updates))

progress_update(p, msg) ==
    [status |-> "processing", progress |-> p, message |-> msg]

\* ---- one call of VideoProcessor.process ----
IdleRun ==
    [pc |-> "idle", callback |-> FALSE, style_preset |-> "instagram_classic",
     transcript |-> <<>>, height |-> 720, segments |-> <<>>,
     style |-> StyleConfig, encoder_input |-> NoFile, exc |-> None]

\* the words Whisper returns for a video
Transcript(n) ==
    [i \in 1..n |-> [start |-> 500 * (i - 1), end |-> 500 * i - 100,
                     text |-> IF i % 2 = 1 THEN "hello" ELSE "there"]]

\* progress_callback(p, msg) for each of the updates, when a callback is given
Report(j, updates) ==
    IF run[j].callback
    THEN /\ job_store' = update_all(job_store, j, updates)
         /\ writes' = writes \o updates
    ELSE UNCHANGED <<job_store, writes>>

Raise(j, msg) == [run EXCEPT ![j].pc = "raised", ![j].exc = msg]

\* get_video_properties: ffmpeg.probe or the stream lookup may raise
Probe(j) ==
    /\ run[j].pc = "probe"
    /\ Report(j, <<progress_update(15, "Analyzing video properties...")>>)
    /\ \E ok \in BOOLEAN :
        run' = IF ok THEN [run EXCEPT ![j].pc = "extract"]
               ELSE Raise(j, "ffprobe error")
    /\ UNCHANGED <<files, task, response, coreVars>>

\* extract_audio: writes /tmp/audio_{job_id}.wav
ExtractAudio(j) ==
    /\ run[j].pc = "extract"
    /\ Report(j, <<progress_update(25, "Extracting audio for transcription...")>>)
    /\ \E ok \in BOOLEAN :
        IF ok
        THEN /\ files' = write_file(files, audio_path(j),
                                    [writer |-> j, text |-> <<>>])
             /\ run' = [run EXCEPT ![j].pc = "transcribe"]
        ELSE /\ run' = Raise(j, "ffmpeg error")
             /\ UNCHANGED files
    /\ UNCHANGED <<task, response, coreVars>>

\* transcribe_audio: Whisper, then create_word_groups(individual_words)
TranscribeAudio(j) ==
    /\ run[j].pc = "transcribe"
    /\ Report(j, <<progress_update(40, "Transcribing audio with Whisper...")>>)
    /\ \E ok \in BOOLEAN :
        run' = IF ok /\ audio_path(j) \in DOMAIN files
               THEN [run EXCEPT ![j].pc = "compile",
                        ![j].segments = create_word_groups(run[j].transcript, 3)]
               ELSE Raise(j, "transcription error")
    /\ UNCHANGED <<files, task, response, coreVars>>

\* the two callbacks between transcribe_audio and get_preset
compile_updates_swapped(style_preset) ==
    <<progress_update(80, "Rendering final video with "
            \o style_preset \o " style..."),
      progress_update(60, "Generating subtitle overlays...")>>
compile_updates(style_preset) ==
    <<progress_update(60, "Generating subtitle overlays..."),
      progress_update(80, "Rendering final video with "
            \o style_preset \o " style...")>>

\* get_preset and ASSRenderer.render_subtitles: writes the subtitle file
CompileSubtitles(j) ==
    /\ run[j].pc = "compile"
    /\ Report(j, compile_updates(run[j].style_preset))
    /\ LET st == get_preset(run[j].style_preset) IN
        /\ run' = [run EXCEPT ![j].pc = "encode", ![j].style = st]
        /\ files' = write_file(files, ass_path(j),
                [writer |-> j,
                 text |-> render_subtitles(run[j].segments, run[j].height, st)])
    /\ UNCHANGED <<task, response, coreVars>>

\* subprocess.run(ffmpeg ... -vf ass={ass_path} ...): reads the subtitle
\* file, writes the output video; a non-zero exit raises "FFmpeg failed"
Encode(j) ==
    /\ run[j].pc = "encode"
    /\ \E ok \in BOOLEAN :
        IF ok /\ ass_path(j) \in DOMAIN files
        THEN /\ run' = [run EXCEPT ![j].pc = "cleanup",
                            ![j].encoder_input = files[ass_path(j)]]
             /\ files' = write_file(files,
                            output_path(j, run[j].style_preset),
                            [writer |-> j, text |-> files[ass_path(j)].text])
        ELSE /\ run' = Raise(j, "FFmpeg failed: error")
             /\ UNCHANGED files
    /\ UNCHANGED <<job_store, writes, task, response, coreVars>>

\* the unlink of the subtitle file and of the audio file, the last callback
Cleanup(j) ==
    /\ run[j].pc = "cleanup"
    /\ files' = unlink(unlink(files, ass_path(j)), audio_path(j))
    /\ Report(j, <<progress_update(100, "Video processing completed!")>>)
    /\ run' = [run EXCEPT ![j].pc = "returned"]
    /\ UNCHANGED <<task, response, coreVars>>

\* inputs of a run
RunPresets == {"instagram_classic", "tiktok_viral", "gaming"}
RunHeights == {720, 1080}
Transcripts == {Transcript(n) : n \in 0..MaxTranscript}

\* ---- process_video_task ----
TaskJob == "job1"
max_retries == 3

\* self.retry(exc=e, countdown=60, max_retries=3) schedules another run
\* unless request.retries has reached max_retries, and then re-raises exc
retry_allowed_once_more(retries) == retries <= max_retries
retry_allowed(retries) == retries < max_retries

failed_update_keeps_progress(error_msg) ==
    [status |-> "failed", message |-> "Processing failed", error |-> error_msg]
failed_update(error_msg) ==
    [status |-> "failed", progress |-> 0, message |-> "Processing failed",
     error |-> error_msg]

completed_update(output_file) ==
    [status |-> "completed", progress |-> 100,
     message |-> "Video processing completed!", output_file |-> output_file]

\* the first statement of an attempt, then VideoProcessor(job_id).process(...)
TaskStart ==
    /\ task.state \in {"dispatched", "retry_wait"}
    /\ LET first == progress_update(10, "Starting video processing with "
                        \o run[TaskJob].style_preset \o " style...") IN
        /\ job_store' = update_job_status_redis(job_store, TaskJob, first)
        /\ writes' = <<first>>
    /\ task' = [task EXCEPT !.state = "running", !.attempts = @ + 1]
    /\ run' = [run EXCEPT ![TaskJob] =
                [IdleRun EXCEPT !.pc = "probe", !.callback = TRUE,
                    !.style_preset = run[TaskJob].style_preset,
                    !.transcript = run[TaskJob].transcript,
                    !.height = run[TaskJob].height]]
    /\ UNCHANGED <<files, response, coreVars>>

\* process returned: the final update of the attempt
TaskComplete ==
    /\ task.state = "running" /\ run[TaskJob].pc = "returned"
    /\ LET last == completed_update(
                    output_filename(TaskJob, run[TaskJob].style_preset)) IN
        /\ job_store' = update_job_status_redis(job_store, TaskJob, last)
        /\ writes' = Append(writes, last)
    /\ task' = [task EXCEPT !.state = "succeeded"]
    /\ UNCHANGED <<run, files, response, coreVars>>

\* except Exception as e: the failed update, then self.retry
TaskFail ==
    /\ task.state = "running" /\ run[TaskJob].pc = "raised"
    /\ LET last == failed_update(run[TaskJob].exc) IN
        /\ job_store' = update_job_status_redis(job_store, TaskJob, last)
        /\ writes' = Append(writes, last)
    /\ task' = IF retry_allowed(task.retries)
               THEN [task EXCEPT !.state = "retry_wait", !.retries = @ + 1]
               ELSE [task EXCEPT !.state = "failed_final"]
    /\ UNCHANGED <<run, files, response, coreVars>>

\* ---- the HTTP handlers ----
\* upload_video: the queued record, the preset check, the dispatch
UploadVideo ==
    /\ task.state = "none"
    /\ LET job_data ==
            [status |-> "queued", progress |-> 0,
             message |-> "Video uploaded, processing queued",
             input_file |-> TaskJob \o "_video.mp4",
             output_file |-> None, error |-> None]
           style_preset ==
            IF \E i \in 1..Len(list_presets) :
                    list_presets[i] = task.style_preset
            THEN task.style_preset ELSE "instagram_classic"
       IN \E delivered \in BOOLEAN :
            IF delivered
            THEN /\ job_store' = redis_set(job_store, TaskJob, job_data)
                 /\ task' = [task EXCEPT !.state = "dispatched"]
                 /\ run' = [run EXCEPT ![TaskJob].style_preset = style_preset,
                                       ![TaskJob].callback = TRUE]
            ELSE /\ job_store' = redis_set(job_store, TaskJob,
                        [job_data EXCEPT !.status = "failed",
                            !.error = "Failed to queue processing: error"])
                 /\ task' = [task EXCEPT !.state = "not_dispatched"]
                 /\ UNCHANGED run
    /\ UNCHANGED <<files, writes, response, coreVars>>

\* outcome of a handler's try block
Returns(code) == [raised |-> FALSE, class |-> "", status_code |-> code]
Raises(class, code) == [raised |-> TRUE, class |-> class, status_code |-> code]

\* fastapi.HTTPException and json.JSONDecodeError derive from Exception
IsException(class) == class \in {"HTTPException", "JSONDecodeError", "KeyError"}

\* except json.JSONDecodeError: ... except Exception as e: ...
except_clauses(outcome) ==
    IF ~outcome.raised THEN outcome.status_code
    ELSE IF outcome.class = "JSONDecodeError" THEN 500
    ELSE IF IsException(outcome.class) THEN 500
    ELSE outcome.status_code

get_job_status(store, job_id) ==
    except_clauses(
        IF job_id \notin DOMAIN store THEN Raises("HTTPException", 404)
        ELSE Returns(200))

download_processed_video(store, fs, job_id) ==
    except_clauses(
        IF job_id \notin DOMAIN store THEN Raises("HTTPException", 404)
        ELSE LET job == store[job_id] IN
            IF job.status # "completed" THEN Raises("HTTPException", 400)
            ELSE IF "output_file" \notin DOMAIN job THEN Raises("KeyError", 500)
            ELSE IF job.output_file \in {None, ""}
                 THEN Raises("HTTPException", 404)
            ELSE IF ("downloads/" \o job.output_file) \notin DOMAIN fs
                 THEN Raises("HTTPException", 404)
            ELSE Returns(200))

GetJobStatus(j) ==
    /\ response' = [endpoint |-> "status", job_id |-> j,
                    status_code |-> get_job_status(job_store, j)]
    /\ UNCHANGED <<run, files, job_store, task, writes, coreVars>>

DownloadProcessedVideo(j) ==
    /\ response' = [endpoint |-> "download", job_id |-> j,
                    status_code |-> download_processed_video(job_store, files, j)]
    /\ UNCHANGED <<run, files, job_store, task, writes, coreVars>>

\* the style_preset form values of an upload
FormPresets ==
    {list_presets[i] : i \in 1..Len(list_presets)} \cup {"nonexistent_name"}

(***************************************************************************)
(* The preset catalog as objects: every accessor of StylePresets builds    *)
(* its result when called; callers hold references into the heap and may   *)
(* change what they were given.                                            *)
(***************************************************************************)
get_preset_info ==
    [instagram_classic |->
        [name |-> "Instagram Classic",
         description |-> "Clean white text with gold highlight",
         best_for |-> "Professional content, tutorials"],
     tiktok_viral |->
        [name |-> "TikTok Viral",
         description |-> "Bold text with cyan glow effect",
         best_for |-> "Dance videos, trends, young audience"],
     youtube_professional |->
        [name |-> "YouTube Professional",
         description |-> "Red background highlight style",
         best_for |-> "Educational content, business videos"],
     minimalist |->
        [name |-> "Minimalist",
         description |-> "Subtle scale effect with soft colors",
         best_for |-> "Aesthetic content, quotes"],
     gaming |->
        [name |-> "Gaming/Streamer",
         description |-> "Bold green glow with thick outline",
         best_for |-> "Gaming content, reactions"]]

\* The object a call returns.  Each accessor evaluates its dict / list
\* display in its body, so the result is a new object at a new address.
new_object_cached(h, key, value) ==
    IF \E i \in 1..Len(h) : h[i].key = key
    THEN [heap |-> h, ref |-> CHOOSE i \in 1..Len(h) : h[i].key = key]
    ELSE [heap |-> Append(h, [key |-> key, value |-> value]),
          ref |-> Len(h) + 1]
new_object(h, key, value) ==
    [heap |-> Append(h, [key |-> key, value |-> value]), ref |-> Len(h) + 1]

\* what a caller may do to an object it was given
mutated(obj) ==
    CASE obj.key[1] = "get_preset" ->
            [obj.value EXCEPT !.words_per_line = 9,
                              !.highlight_style = "karaoke",
                              !.base_color = "&H000000"]
      [] obj.key[1] = "list_presets" -> Append(Tail(obj.value), "custom")
      [] obj.key[1] = "get_preset_info" ->
            [obj.value EXCEPT !.gaming.name = "Custom"]

CatalogNames == {"instagram_classic", "gaming", "nonexistent_name"}

(***************************************************************************)
(* The calls as state machines.  Each specification draws the arguments    *)
(* of one component in its initial states and applies the component.       *)
(***************************************************************************)
IdleGrouper ==
    /\ words = <<>> /\ words_per_group = 3 /\ grouped_segments = <<>>
IdleCompiler ==
    /\ preset_name = "instagram_classic" /\ style = StyleConfig
    /\ segments = <<>> /\ height = 720 /\ ass_content = <<>>
IdleTime ==
    /\ seconds = 0 /\ ass_time = "" /\ srt_time = ""
IdleColour ==
    /\ colour_in = <<>> /\ ass_colour = <<>> /\ hex_colour = <<>>
NoCall == [call |-> "none", arg |-> "", ref |-> 0, value |-> <<>>]
IdleCatalog ==
    /\ heap = <<>> /\ returned = NoCall
IdleTask == [state |-> "none", retries |-> 0, attempts |-> 0,
             style_preset |-> "instagram_classic"]
NoResponse == [endpoint |-> "none", job_id |-> None, status_code |-> 0]
IdleStore ==
    /\ files = <<>> /\ job_store = <<>> /\ task = IdleTask
    /\ writes = <<>> /\ response = NoResponse
IdlePipeline ==
    /\ run = [j \in Jobs |-> IdleRun]
    /\ IdleStore

\* ---- Word Grouper ----
InitGrouper ==
    /\ pc = "start"
    /\ words \in WordSeqs(MaxWords) \cup ErrorWordSeqs
    /\ words_per_group \in -1..MaxGroup
    /\ grouped_segments = <<>>
    /\ IdleCompiler /\ IdleTime /\ IdleColour /\ IdlePipeline /\ IdleCatalog

CreateWordGroups ==
    /\ pc = "start"
    /\ grouped_segments' = create_word_groups(words, words_per_group)
    /\ pc' = "grouped"
    /\ UNCHANGED <<words, words_per_group, compilerVars, timeVars, colourVars, pipelineVars, catalogVars>>

NextGrouper == CreateWordGroups

SpecGrouper == InitGrouper /\ [][NextGrouper]_vars

\* ---- Style Model and Subtitle Compiler ----
InitCompiler ==
    /\ pc = "start"
    /\ preset_name \in PresetNames
    /\ style = StyleConfig
    /\ segments \in SegmentSeqs
    /\ height \in Heights
    /\ ass_content = <<>>
    /\ IdleGrouper /\ IdleTime /\ IdleColour /\ IdlePipeline /\ IdleCatalog

\* style = StylePresets.get_preset(style_preset)
GetPreset ==
    /\ pc = "start"
    /\ style' = get_preset(preset_name)
    /\ pc' = "preset"
    /\ UNCHANGED <<preset_name, segments, height, ass_content, grouperVars, timeVars, colourVars, pipelineVars, catalogVars>>

\* a StyleConfig built ad hoc: other highlight and glow fields
CustomStyle(hs, ge, gi) ==
    /\ pc = "preset"
    /\ style' = [style EXCEPT !.highlight_style = hs, !.glow_enabled = ge,
                              !.glow_intensity = gi]
    /\ pc' = "custom"
    /\ UNCHANGED <<preset_name, segments, height, ass_content, grouperVars, timeVars, colourVars, pipelineVars, catalogVars>>

RenderSubtitles ==
    /\ pc \in {"preset", "custom"}
    /\ ass_content' = render_subtitles(segments, height, style)
    /\ pc' = "rendered"
    /\ UNCHANGED <<preset_name, style, segments, height, grouperVars, timeVars, colourVars, pipelineVars, catalogVars>>

NextCompiler ==
    \/ GetPreset
    \/ \E hs \in HighlightStyles, ge \in BOOLEAN, gi \in GlowIntensities :
            CustomStyle(hs, ge, gi)
    \/ RenderSubtitles

SpecCompiler == InitCompiler /\ [][NextCompiler]_vars

\* ---- Time encoders ----
InitTime ==
    /\ pc = "start"
    /\ seconds \in TimesMs
    /\ ass_time = "" /\ srt_time = ""
    /\ IdleGrouper /\ IdleCompiler /\ IdleColour /\ IdlePipeline /\ IdleCatalog

SecondsToAssTime ==
    /\ ass_time = ""
    /\ ass_time' = seconds_to_ass_time(seconds)
    /\ UNCHANGED <<pc, seconds, srt_time, grouperVars, compilerVars, colourVars, pipelineVars, catalogVars>>

SecondsToSrtTime ==
    /\ srt_time = ""
    /\ srt_time' = seconds_to_srt_time(seconds)
    /\ UNCHANGED <<pc, seconds, ass_time, grouperVars, compilerVars, colourVars, pipelineVars, catalogVars>>

NextTime == SecondsToAssTime \/ SecondsToSrtTime

SpecTime == InitTime /\ [][NextTime]_vars

\* ---- Colour conversion ----
InitColour ==
    /\ pc = "start"
    /\ colour_in \in ColourStrings
    /\ ass_colour = <<>> /\ hex_colour = <<>>
    /\ IdleGrouper /\ IdleCompiler /\ IdleTime /\ IdlePipeline /\ IdleCatalog

ConvertHexToAss ==
    /\ pc = "start"
    /\ ass_colour' = convert_hex_to_ass_color(colour_in)
    /\ pc' = "packed"
    /\ UNCHANGED <<colour_in, hex_colour, grouperVars, compilerVars, timeVars, pipelineVars, catalogVars>>

\* the round trip: the packed colour converted back
ConvertBack ==
    /\ pc = "packed"
    /\ hex_colour' = convert_ass_to_hex_color(ass_colour)
    /\ pc' = "unpacked"
    /\ UNCHANGED <<colour_in, ass_colour, grouperVars, compilerVars, timeVars, pipelineVars, catalogVars>>

ConvertAssToHex ==
    /\ pc = "start"
    /\ hex_colour' = convert_ass_to_hex_color(colour_in)
    /\ pc' = "direct"
    /\ UNCHANGED <<colour_in, ass_colour, grouperVars, compilerVars, timeVars, pipelineVars, catalogVars>>

NextColour == ConvertHexToAss \/ ConvertBack \/ ConvertAssToHex

SpecColour == InitColour /\ [][NextColour]_vars

\* ---- Two calls of VideoProcessor.process with distinct job ids ----
InitRuns ==
    /\ pc = "start"
    /\ run \in [Jobs -> {[IdleRun EXCEPT !.pc = "probe", !.style_preset = p,
                                         !.transcript = t, !.height = h] :
                            p \in RunPresets, t \in Transcripts,
                            h \in RunHeights}]
    /\ IdleStore
    /\ IdleGrouper /\ IdleCompiler /\ IdleTime /\ IdleColour /\ IdleCatalog

NextRuns ==
    \E j \in Jobs :
        \/ Probe(j) \/ ExtractAudio(j) \/ TranscribeAudio(j)
        \/ CompileSubtitles(j) \/ Encode(j) \/ Cleanup(j)

SpecRuns == InitRuns /\ [][NextRuns]_vars

\* ---- The StylePresets accessors and callers that change their results ----
InitCatalog ==
    /\ pc = "start"
    /\ heap = <<>> /\ returned = NoCall
    /\ IdleGrouper /\ IdleCompiler /\ IdleTime /\ IdleColour /\ IdlePipeline

Return(call, arg, obj) ==
    /\ heap' = obj.heap
    /\ returned' = [call |-> call, arg |-> arg, ref |-> obj.ref,
                     value |-> obj.heap[obj.ref].value]
    /\ UNCHANGED <<pc, grouperVars, compilerVars, timeVars, colourVars,
                   pipelineVars>>

CallGetPreset ==
    /\ Len(heap) < MaxObjects
    /\ \E name \in CatalogNames :
        Return("get_preset", name,
               new_object(heap,
                    <<"get_preset", IF name \in DOMAIN presets THEN name
                                    ELSE "instagram_classic">>,
                    get_preset(name)))

CallListPresets ==
    /\ Len(heap) < MaxObjects
    /\ Return("list_presets", "",
              new_object(heap, <<"list_presets">>, list_presets))

CallGetPresetInfo ==
    /\ Len(heap) < MaxObjects
    /\ Return("get_preset_info", "",
              new_object(heap, <<"get_preset_info">>, get_preset_info))

\* a caller changes an object it was given
MutateReturned ==
    /\ \E i \in 1..Len(heap) :
        /\ heap[i].value # mutated(heap[i])
        /\ heap' = [heap EXCEPT ![i].value = mutated(heap[i])]
    /\ UNCHANGED <<returned, pc, grouperVars, compilerVars, timeVars, colourVars,
                   pipelineVars>>

NextCatalog ==
    CallGetPreset \/ CallListPresets \/ CallGetPresetInfo \/ MutateReturned

SpecCatalog == InitCatalog /\ [][NextCatalog]_vars

\* ---- One uploaded job: the handlers, the task and its retries ----
InitJob ==
    /\ pc = "start"
    /\ \E t \in Transcripts, h \in RunHeights :
        run = [j \in Jobs |->
                IF j = TaskJob
                THEN [IdleRun EXCEPT !.transcript = t, !.height = h]
                ELSE IdleRun]
    /\ \E p \in FormPresets : task = [IdleTask EXCEPT !.style_preset = p]
    /\ files = <<>> /\ job_store = <<>>
    /\ writes = <<>> /\ response = NoResponse
    /\ IdleGrouper /\ IdleCompiler /\ IdleTime /\ IdleColour /\ IdleCatalog

Worker ==
    \/ TaskStart
    \/ Probe(TaskJob) \/ ExtractAudio(TaskJob) \/ TranscribeAudio(TaskJob)
    \/ CompileSubtitles(TaskJob) \/ Encode(TaskJob) \/ Cleanup(TaskJob)
    \/ TaskComplete \/ TaskFail

NextJob ==
    \/ UploadVideo
    \/ Worker
    \/ \E j \in Jobs : GetJobStatus(j) \/ DownloadProcessedVideo(j)

SpecJob == InitJob /\ [][NextJob]_vars

\* The same job under a fair worker: the worker runs a dispatched task,
\* every step of an attempt terminates, and the countdown of a retry
\* elapses.  The retries do not depend on the captions, so the videos have
\* at most one word.
InitRetry ==
    /\ InitJob
    /\ Len(run[TaskJob].transcript) <= 1
    /\ run[TaskJob].height = 720

FairSpecJob == InitRetry /\ [][NextJob]_vars /\ WF_vars(Worker)

(***************************************************************************)
(* Properties                                                              *)
(***************************************************************************)
IsDialogue(l) == l.tag = "Dialogue"
IsStyle(l) == l.tag = "Style"
EventLines(file) == SelectSeq(file, IsDialogue)
StyleLines(file) == SelectSeq(file, IsStyle)
\* the lines that follow the Format line of the [Events] section
EventsFormatAt(file) ==
    CHOOSE i \in 2..Len(file) :
        file[i - 1] = Plain("[Events]") /\ file[i].tag = "Format"
AfterHeader(file) == SubSeq(file, EventsFormatAt(file) + 1, Len(file))

ExampleWords ==
    <<[start |-> 0, end |-> 500, text |-> "hello"],
      [start |-> 500, end |-> 1200, text |-> "there"],
      [start |-> 1200, end |-> 1800, text |-> "friend"]>>

\* C1: for every time-ordered word sequence W and words_per_group k >= 1 the
\* grouper returns one segment per word; segment i holds the texts of
\* W[i .. min(i+k, len)-1] in order, starts at W[i].start and ends at
\* W[i+1].start, or at W[i].end for the last word.  The three-word example
\* of the specification gives the three segments it lists.
C1_SlidingWindow ==
    (pc = "grouped" /\ words_per_group >= 1) =>
        /\ Len(grouped_segments) = Len(words)
        /\ \A i \in 1..Len(words) :
            LET seg == grouped_segments[i]
                last == Min(i + words_per_group - 1, Len(words))
            IN  /\ Len(seg.words) = last - i + 1
                /\ \A j \in 1..Len(seg.words) : seg.words[j] = words[i + j - 1].text
                /\ seg.start = words[i].start
                /\ seg.end = IF i < Len(words) THEN words[i + 1].start
                             ELSE words[i].end
        /\ (words = ExampleWords /\ words_per_group = 3) =>
            /\ grouped_segments[1].words = <<"hello", "there", "friend">>
            /\ <<grouped_segments[1].start, grouped_segments[1].end>> = <<0, 500>>
            /\ grouped_segments[2].words = <<"there", "friend">>
            /\ <<grouped_segments[2].start, grouped_segments[2].end>> = <<500, 1200>>
            /\ grouped_segments[3].words = <<"friend">>
            /\ <<grouped_segments[3].start, grouped_segments[3].end>> = <<1200, 1800>>

C1_Witness ==
    /\ pc = "grouped"
    /\ words = ExampleWords
    /\ words_per_group = 3
    /\ Len(grouped_segments) = 3
    /\ grouped_segments[2].words = <<"there", "friend">>

\* C2: in every output of the grouper, consecutive segments are contiguous in
\* time: segment i ends exactly where segment i+1 starts, whatever the
\* words' own end times are.
C2_Contiguous ==
    pc = "grouped" =>
        \A i \in 1..(Len(grouped_segments) - 1) :
            grouped_segments[i].end = grouped_segments[i + 1].start

C2_Witness ==
    /\ pc = "grouped"
    /\ Len(grouped_segments) = 3
    /\ words[1].end > words[2].start
    /\ words[2].end < words[3].start
    /\ grouped_segments[1].end = words[2].start

PlaceholderText ==
    "Dialogue: 0,0:00:00.00,0:00:05.00,Default,,0,0,0,,No speech detected"

\* C3: given no segments, the compiler emits a file whose events section
\* holds exactly one event line, 0:00:00.00 to 0:00:05.00 with the text
\* "No speech detected"; no compiled file, for empty or non-empty segments,
\* has zero events.
C3_PlaceholderEvent ==
    pc = "rendered" =>
        /\ segments = <<>> =>
            /\ Len(EventLines(ass_content)) = 1
            /\ Len(EventLines(AfterHeader(ass_content))) = 1
            /\ LineText(EventLines(ass_content)[1]) = PlaceholderText
        /\ EventLines(AfterHeader(ass_content)) # <<>>

C3_Witness ==
    /\ pc = "rendered"
    /\ segments = <<>>
    /\ style.highlight_style = "glow_pulse"
    /\ Len(EventLines(ass_content)) = 1

\* the words after the first, each preceded by one space
PlainTail(ws) == IF Len(ws) = 1 THEN "" ELSE " " \o Join(Tail(ws), " ")

\* an opening and a closing override block per highlight mode
HighlightWraps(st) ==
    {<<"{\\c" \o st.highlight_color \o "&}", "{\\c" \o st.base_color \o "&}">>,
     <<"{\\fscx120\\fscy120\\c" \o st.highlight_color \o "&}",
       "{\\fscx100\\fscy100\\c" \o st.base_color \o "&}">>,
     <<"{\\c" \o st.highlight_color \o "&\\3c" \o st.outline_color \o "&\\4c"
          \o st.highlight_color \o "&\\bord" \o ToString(st.outline_width)
          \o "\\shad3}",
       "{\\c" \o st.base_color \o "&\\3c" \o st.outline_color
          \o "&\\4c&H00000000&\\bord2\\shad0}">>,
     <<"{\\c" \o st.highlight_color \o "&\\3c" \o st.outline_color \o "&\\4c"
          \o st.highlight_color \o "&\\bord" \o ToString(st.outline_width)
          \o "\\shad2}",
       "{\\c" \o st.base_color \o "&\\3c" \o st.outline_color
          \o "&\\4c&H00000000&\\bord2\\shad0}">>,
     <<"{\\c" \o st.base_color \o "&\\3c" \o st.highlight_color \o "&\\bord6}",
       "{\\3c" \o st.outline_color \o "&\\bord2}">>}

\* C4: for every segment with a non-empty words list and every
\* highlight_style, the event text is highlight markup around words[0] only,
\* then words[1..] unmodified, joined by single spaces in order; for
\* color_change the markup is exactly {\c<highlight_color>&} before the word
\* and {\c<base_color>&} after it.
C4_FirstWordOnly ==
    (pc = "rendered" /\ segments # <<>>) =>
        \A j \in 1..Len(segments) :
            segments[j].words # <<>> =>
                LET ws == segments[j].words
                    text == EventLines(ass_content)[j].fields[10]
                IN  /\ \E wrap \in HighlightWraps(style) :
                        text = wrap[1] \o ws[1] \o wrap[2] \o PlainTail(ws)
                    /\ style.highlight_style = "color_change" =>
                        text = "{\\c" \o style.highlight_color \o "&}" \o ws[1]
                                \o "{\\c" \o style.base_color \o "&}"
                                \o PlainTail(ws)

C4_Witness ==
    /\ pc = "rendered"
    /\ style.highlight_style = "color_change"
    /\ Len(segments) = 2
    /\ segments[1].words = <<"hello", "there">>
    /\ EventLines(ass_content)[1].fields[10]
            = "{\\c&H00d7ff&}hello{\\c&Hffffff&} there"

KnownHighlightStyles ==
    {"color_change", "scale_up", "glow_pulse", "background_highlight"}

\* C5: with glow_pulse and glow disabled, or with a highlight_style outside
\* the four known ones, the compiled file is the file compiled for
\* color_change from the same segments, height and otherwise equal style
\* (whatever the glow fields of that style).
C5_DegradesToColorChange ==
    (/\ pc = "rendered"
     /\ \/ (style.highlight_style = "glow_pulse" /\ ~style.glow_enabled)
        \/ style.highlight_style \notin KnownHighlightStyles) =>
        \A ge \in BOOLEAN, gi \in GlowIntensities :
            ass_content =
                render_subtitles(segments, height,
                    [style EXCEPT !.highlight_style = "color_change",
                                  !.glow_enabled = ge, !.glow_intensity = gi])

C5_Witness ==
    /\ pc = "rendered"
    /\ style.highlight_style = "glow_pulse"
    /\ ~style.glow_enabled
    /\ style.glow_intensity = "strong"
    /\ Len(segments) = 2
    /\ segments[1].words = <<"hello", "there">>
    /\ EventLines(ass_content)[1].fields[10]
            = "{\\c" \o style.highlight_color \o "&}hello{\\c&Hffffff&} there"

\* C6: for n >= 1 segments the compiled file holds exactly n lines after the
\* header, the j-th being the event of the j-th segment:
\* Dialogue: 0,<start>,<end>,Default,,0,0,0,,<styledText>
C6_OneEventPerSegment ==
    (pc = "rendered" /\ segments # <<>>) =>
        /\ Len(AfterHeader(ass_content)) = Len(segments)
        /\ Len(EventLines(ass_content)) = Len(segments)
        /\ \A j \in 1..Len(segments) :
            LineText(AfterHeader(ass_content)[j]) =
                "Dialogue: 0," \o renderer_seconds_to_ass_time(segments[j].start)
                    \o "," \o renderer_seconds_to_ass_time(segments[j].end)
                    \o ",Default,,0,0,0,,"
                    \o create_styled_text(segments[j], style)

C6_Witness ==
    /\ pc = "rendered"
    /\ Len(segments) = 2
    /\ segments[1].words = <<"hello">>
    /\ segments[2].words = <<"there">>
    /\ style.highlight_style = "color_change"
    /\ LineText(AfterHeader(ass_content)[2]) =
          "Dialogue: 0,0:00:00.28,0:00:01.00,Default,,0,0,0,,"
              \o "{\\c&H00d7ff&}there{\\c&Hffffff&}"

\* the fields of a style record that come from the style and the height
StyleRecordFrom(l, name, colour, st) ==
    /\ l.fields[1] = name
    /\ l.fields[2] = st.font_family
    /\ l.fields[4] = colour
    /\ l.fields[6] = st.outline_color
    /\ l.fields[17] = ToString(st.outline_width)
    /\ l.fields[19] = ToString(st.alignment)

\* C7: every compiled file, for segments and for the placeholder alike, has
\* exactly two style records, "Default" and "Highlight", with font family,
\* colours, outline width and alignment taken from the StyleConfig.
C7_TwoStyleRecords ==
    pc = "rendered" =>
        /\ Len(StyleLines(ass_content)) = 2
        /\ StyleRecordFrom(StyleLines(ass_content)[1], "Default",
                           style.base_color, style)
        /\ StyleRecordFrom(StyleLines(ass_content)[2], "Highlight",
                           style.highlight_color, style)

\* round-to-nearest of h * ratio / 1000
RoundScale(h, ratio) == (2 * h * ratio + 1000) \div 2000
\* the integer part of h * ratio / 1000
TruncScale(h, ratio) == (h * ratio - ((h * ratio) % 1000)) \div 1000

SizesAre(l, font_size, margin_v) ==
    /\ l.fields[3] = ToString(font_size)
    /\ l.fields[20] = "20"
    /\ l.fields[21] = "20"
    /\ l.fields[22] = ToString(margin_v)

\* C8 as stated: the font size in the header is
\* max(round(height * font_size_ratio), 16), the vertical margin
\* max(round(height * margin_ratio), 20), the side margins 20.
C8_RoundedSizes ==
    pc = "rendered" =>
        \A i \in 1..Len(StyleLines(ass_content)) :
            SizesAre(StyleLines(ass_content)[i],
                     Max(RoundScale(height, style.font_size_ratio), 16),
                     Max(RoundScale(height, style.margin_ratio), 20))

\* C8 amended: the font size in the header is
\* max(trunc(height * font_size_ratio), 16), the vertical margin
\* max(trunc(height * margin_ratio), 20), the products cut to their integer
\* part and never rounded up; the side margins are 20.
C8_TruncatedSizes ==
    pc = "rendered" =>
        /\ StyleLines(ass_content) # <<>>
        /\ \A i \in 1..Len(StyleLines(ass_content)) :
            SizesAre(StyleLines(ass_content)[i],
                     Max(TruncScale(height, style.font_size_ratio), 16),
                     Max(TruncScale(height, style.margin_ratio), 20))

C8_Witness ==
    /\ pc = "rendered"
    /\ height = 720
    /\ style.font_size_ratio = 55
    /\ segments # <<>>
    /\ StyleLines(ass_content)[1].fields[3] = "39"
    /\ StyleLines(ass_content)[1].fields[22] = "50"

\* the decimal digits of a time of t milliseconds
ExpectedAssTime(t) ==
    ToString(t \div 3600000) \o ":" \o Fmt02((t \div 60000) % 60) \o ":"
        \o Fmt02((t \div 1000) % 60) \o "." \o Fmt02((t % 1000) \div 10)
ExpectedSrtTime(t) ==
    Fmt02(t \div 3600000) \o ":" \o Fmt02((t \div 60000) % 60) \o ":"
        \o Fmt02((t \div 1000) % 60) \o "," \o Fmt03(t % 1000)

\* C9: for every time of t whole milliseconds the encoders give
\* hours = t div 3600000, minutes and seconds in 0..59 and the fraction cut
\* to 2 digits (H:MM:SS.cc) and to 3 digits (HH:MM:SS,mmm); 0 gives
\* "0:00:00.00" and "00:00:00,000", 3725.456 s gives "1:02:05.45" and
\* "01:02:05,456".
C9_TimeEncoding ==
    /\ ass_time # "" => ass_time = ExpectedAssTime(seconds)
    /\ srt_time # "" => srt_time = ExpectedSrtTime(seconds)
    /\ (seconds = 0 /\ ass_time # "") => ass_time = "0:00:00.00"
    /\ (seconds = 0 /\ srt_time # "") => srt_time = "00:00:00,000"
    /\ (seconds = 3725456 /\ ass_time # "") => ass_time = "1:02:05.45"
    /\ (seconds = 3725456 /\ srt_time # "") => srt_time = "01:02:05,456"

InstagramClassic ==
    [font_family |-> "Arial", font_size_ratio |-> 50, font_weight |-> "bold",
     base_color |-> "&Hffffff", highlight_color |-> "&H00d7ff",
     outline_color |-> "&H000000",
     highlight_style |-> "color_change", outline_width |-> 2,
     glow_enabled |-> FALSE, glow_intensity |-> "none",
     words_per_line |-> 3, position |-> "bottom", alignment |-> 2,
     margin_ratio |-> 80,
     background_enabled |-> FALSE, background_color |-> "&H80000000",
     background_opacity |-> 80]

ListedPresets == {list_presets[i] : i \in 1..Len(list_presets)}

\* C10: get_preset returns, for every name outside the catalog, the
\* configuration of "instagram_classic" field by field, and for every name
\* of list_presets() that preset's own configuration.
C10_PresetFallback ==
    pc = "preset" =>
        /\ preset_name \notin ListedPresets => style = InstagramClassic
        /\ preset_name \in ListedPresets =>
            /\ style = presets[preset_name]
            /\ style.words_per_line =
                  (CASE preset_name = "gaming" -> 2
                     [] preset_name = "tiktok_viral" -> 4
                     [] OTHER -> 3)
            /\ style.highlight_style =
                  (CASE preset_name = "instagram_classic" -> "color_change"
                     [] preset_name = "youtube_professional" -> "background_highlight"
                     [] preset_name = "minimalist" -> "scale_up"
                     [] OTHER -> "glow_pulse")

C10_Witness ==
    /\ pc = "preset"
    /\ preset_name = "nonexistent_name"
    /\ style.highlight_color = "&H00d7ff"
    /\ style.words_per_line = 3

HexDigits ==
    {"0", "1", "2", "3", "4", "5", "6", "7", "8", "9",
     "a", "b", "c", "d", "e", "f", "A", "B", "C", "D", "E", "F"}
AllHex(str) == \A i \in 1..Len(str) : str[i] \in HexDigits
\* the six digits of a well-formed #RRGGBB / RRGGBB string
HexBody(str) == IF str # <<>> /\ str[1] = "#" THEN Tail(str) ELSE str
WellFormedHex(str) == Len(HexBody(str)) = 6 /\ AllHex(HexBody(str))
WellFormedAss(str) ==
    /\ Len(str) = 8 /\ str[1] = "&" /\ str[2] = "H"
    /\ AllHex(SubSeq(str, 3, 8))

\* C11: for every well-formed 6-hex-digit colour h, with or without '#', in
\* any letter case, the packed form is "&H" then the blue, green and red
\* pairs of h, and converting it back gives '#' then the upper-cased digits
\* of h.
C11_RoundTrip ==
    (pc \in {"packed", "unpacked"} /\ WellFormedHex(colour_in)) =>
        LET d == HexBody(colour_in) IN
        /\ ass_colour = <<"&", "H", d[5], d[6], d[3], d[4], d[1], d[2]>>
        /\ pc = "unpacked" =>
            hex_colour = <<"#", Upper(d[1]), Upper(d[2]), Upper(d[3]),
                           Upper(d[4]), Upper(d[5]), Upper(d[6])>>

C11_Witness ==
    /\ pc = "unpacked"
    /\ colour_in = <<"#", "1", "a", "F", "F", "a", "1">>
    /\ ass_colour = <<"&", "H", "a", "1", "F", "F", "1", "a">>
    /\ hex_colour = <<"#", "1", "A", "F", "F", "A", "1">>

\* C12: for every malformed colour string (wrong length, or six characters
\* that are not all hexadecimal digits) convert_hex_to_ass_color returns
\* "&Hffffff" and convert_ass_to_hex_color returns "#FFFFFF"; no non-hex
\* character reaches a result.
C12_MalformedGivesWhite ==
    /\ (pc = "packed" /\ ~WellFormedHex(colour_in)) =>
            ass_colour = <<"&", "H", "f", "f", "f", "f", "f", "f">>
    /\ (pc = "direct" /\ ~WellFormedAss(colour_in)) =>
            hex_colour = <<"#", "F", "F", "F", "F", "F", "F">>
    /\ pc = "packed" => AllHex(SubSeq(ass_colour, 3, Len(ass_colour)))
    /\ pc = "direct" => AllHex(Tail(hex_colour))

\* the programmer-error inputs of create_word_groups
NegativeTimestamp(W) == \E i \in 1..Len(W) : W[i].start < 0 \/ W[i].end < 0
EndBeforeStart(W) == \E i \in 1..Len(W) : W[i].end < W[i].start
ProgrammerError(W, k) ==
    \/ k <= 0 /\ W # <<>>
    \/ NegativeTimestamp(W)
    \/ EndBeforeStart(W)

\* C13: create_word_groups never returns normally when called with
\* words_per_group <= 0 on a non-empty word sequence, with a word that has a
\* negative timestamp, or with a word whose end precedes its start.
C13_HardFailure ==
    pc = "grouped" => ~ProgrammerError(words, words_per_group)

\* the subtitle text a run produces when it is executed alone
TextAlone(j) ==
    render_subtitles(create_word_groups(run[j].transcript, 3), run[j].height,
                     get_preset(run[j].style_preset))

\* C14: for any interleaving of the steps of two pipeline runs with distinct
\* job ids, the subtitle text each run hands to the encoder is the text the
\* run produces alone, and every file a run reads or holds under its paths
\* was written by that run.
C14_NoSharedState ==
    \A j \in Jobs :
        /\ run[j].pc \in {"cleanup", "returned"} =>
            /\ run[j].encoder_input.writer = j
            /\ run[j].encoder_input.text = TextAlone(j)
        /\ \A path \in {ass_path(j), audio_path(j),
                        output_path(j, run[j].style_preset)} :
            path \in DOMAIN files => files[path].writer = j

C14_Witness ==
    /\ run["job1"].pc = "cleanup" /\ run["job2"].pc = "encode"
    /\ run["job1"].encoder_input.text # run["job2"].encoder_input.text
    /\ ass_path("job1") \in DOMAIN files /\ ass_path("job2") \in DOMAIN files
    /\ files[ass_path("job1")].text # files[ass_path("job2")].text
    /\ run["job1"].encoder_input.text = TextAlone("job1")

\* the value the last accessor call handed to its caller
ReturnedValue == returned.value
\* an object of an earlier call of the same accessor was changed before
EarlierObjectMutated ==
    \E i \in 1..Len(heap) :
        /\ heap[i].key = heap[returned.ref].key
        /\ i < returned.ref
        /\ heap[i].value # ReturnedValue

\* C15: after any sequence of get_preset, list_presets and get_preset_info
\* calls interleaved with changes callers make to the returned objects,
\* get_preset(name) returns the catalog's field values for the name,
\* list_presets() the five names in order and get_preset_info() the same
\* metadata, as on a first call.
C15_CatalogUnchanged ==
    /\ returned.call = "get_preset" =>
        ReturnedValue =
            IF returned.arg = "gaming" THEN presets.gaming
            ELSE InstagramClassic
    /\ returned.call = "list_presets" =>
        ReturnedValue = <<"instagram_classic", "tiktok_viral",
                          "youtube_professional", "minimalist", "gaming">>
    /\ returned.call = "get_preset_info" =>
        /\ DOMAIN ReturnedValue = DOMAIN presets
        /\ ReturnedValue.gaming.name = "Gaming/Streamer"
        /\ ReturnedValue = get_preset_info

C15_Witness ==
    /\ returned.call = "get_preset" /\ returned.arg = "gaming"
    /\ EarlierObjectMutated
    /\ ReturnedValue.words_per_line = 2

\* the record of the uploaded job and the log of the current attempt
Record == job_store[TaskJob]
ProgressLog == [i \in 1..Len(writes) |-> writes[i].progress]
StatusLog == [i \in 1..Len(writes) |-> writes[i].status]
AttemptEnded == task.state \in {"retry_wait", "failed_final", "succeeded"}
AttemptRaised == task.state \in {"retry_wait", "failed_final"}

\* C16: when a pipeline step of an attempt raises, the attempt ends with the
\* job record at status "failed", progress 0 and error equal to the failure
\* message; it never ends with the record at "processing" or "completed".
C16_FailureRecorded ==
    AttemptRaised =>
        /\ run[TaskJob].pc = "raised"
        /\ Record.status = "failed"
        /\ Record.progress = 0
        /\ Record.error = run[TaskJob].exc
        /\ Record.error # None

C16_Witness ==
    /\ task.state = "retry_wait"
    /\ run[TaskJob].exc = "FFmpeg failed: error"
    /\ Record.status = "failed" /\ Record.progress = 0
    /\ Record.error = "FFmpeg failed: error"
    /\ ProgressLog = <<10, 15, 25, 40, 60, 80, 0>>

\* the progress values written while the steps run, by position of the run
ProgressAt(p) ==
    CASE p = "probe" -> <<10>>
      [] p = "extract" -> <<10, 15>>
      [] p = "transcribe" -> <<10, 15, 25>>
      [] p = "compile" -> <<10, 15, 25, 40>>
      [] p \in {"encode", "cleanup"} -> <<10, 15, 25, 40, 60, 80>>
      [] p = "returned" -> <<10, 15, 25, 40, 60, 80, 100>>
IsPrefix(a, b) == Len(a) <= Len(b) /\ SubSeq(b, 1, Len(a)) = a

\* C17: within one attempt the steps run in the order probe, extract audio,
\* transcribe and group, compile, encode; the progress values written are
\* strictly increasing through 10, 15, 25, 40, 60, 80, 100, all with status
\* "processing"; "completed" is written with progress 100 and a non-empty
\* output_file, only after the encode succeeded, as the attempt's last write.
C17_StepOrder ==
    task.state \in {"running", "retry_wait", "failed_final", "succeeded"} =>
        /\ run[TaskJob].pc \notin {"raised", "idle"} =>
            /\ IsPrefix(ProgressAt(run[TaskJob].pc), ProgressLog)
            /\ Len(ProgressLog) <= Len(ProgressAt(run[TaskJob].pc)) + 1
        /\ \A i \in 1..Len(writes) :
            /\ writes[i].status = "processing" =>
                /\ IsPrefix(SubSeq(ProgressLog, 1, i),
                            <<10, 15, 25, 40, 60, 80, 100>>)
                /\ \A k \in 1..(i - 1) :
                    /\ writes[k].status = "processing"
                    /\ writes[k].progress < writes[i].progress
            /\ writes[i].status # "processing" => i = Len(writes)
            /\ writes[i].status = "completed" =>
                /\ writes[i].progress = 100
                /\ writes[i].output_file \notin {None, ""}
                /\ SubSeq(ProgressLog, 1, i - 1) =
                        <<10, 15, 25, 40, 60, 80, 100>>
                /\ run[TaskJob].encoder_input.writer = TaskJob
                /\ ("downloads/" \o writes[i].output_file) \in DOMAIN files
        /\ task.state = "succeeded" => StatusLog[Len(writes)] = "completed"
        /\ run[TaskJob].pc \in {"cleanup", "returned"} =>
            /\ run[TaskJob].encoder_input.text =
                    render_subtitles(run[TaskJob].segments,
                                     run[TaskJob].height, run[TaskJob].style)
            /\ run[TaskJob].segments =
                    create_word_groups(run[TaskJob].transcript, 3)

C17_Witness ==
    /\ task.state = "succeeded"
    /\ ProgressLog = <<10, 15, 25, 40, 60, 80, 100, 100>>
    /\ StatusLog[8] = "completed" /\ StatusLog[7] = "processing"
    /\ Record.status = "completed"
    /\ Record.output_file = "job1_gaming_with_subtitles.mp4"

\* C18: GET /status/{job_id} and GET /download/{job_id} answer 404 for a job
\* id with no record, and the download answers 400 for a record whose status
\* is not "completed"; none of these is answered 500.  Records are never
\* deleted and a completed record stays completed, so a job id without a
\* record had none when the request was handled, and a record that is not
\* completed was then missing or not completed.
C18_NotFoundAndNotReady ==
    /\ (response.endpoint \in {"status", "download"}
            /\ response.job_id \notin DOMAIN job_store) =>
        response.status_code = 404
    /\ (response.endpoint = "download"
            /\ response.job_id \in DOMAIN job_store
            /\ job_store[response.job_id].status # "completed") =>
        response.status_code \in {400, 404}

\* C19: a job runs in at most max_retries + 1 attempts; "failed" is followed
\* by "processing" only when a retry starts; a "completed" record is never
\* overwritten; once the job has settled the record is "completed" or
\* "failed" and is never written again; every dispatched job settles.
Settled == task.state \in {"succeeded", "failed_final"}
StatusOf(store) ==
    IF TaskJob \in DOMAIN store THEN store[TaskJob].status ELSE "absent"
C19_RetriesAndSettles ==
    /\ [](task.attempts <= max_retries + 1)
    /\ [][(StatusOf(job_store) = "failed" /\ StatusOf(job_store') = "processing")
            => (task.state = "retry_wait" /\ task'.state = "running"
                    /\ task'.attempts = task.attempts + 1)]_vars
    /\ [][StatusOf(job_store) = "completed" => job_store' = job_store]_vars
    /\ [](Settled => StatusOf(job_store) \in {"completed", "failed"})
    /\ [][Settled => job_store' = job_store]_vars
    /\ [](task.state = "dispatched" => <>Settled)

C19_Witness ==
    /\ task.state = "failed_final"
    /\ task.attempts = 4 /\ task.retries = 3
    /\ Record.status = "failed"

\* C20: every segment the pipeline produces for a job holds at most
\* style.words_per_line words of the job's preset, and exactly that many
\* whenever that many words remain from its anchor word.
C20_GroupSizeFromStyle ==
    run[TaskJob].pc \in {"compile", "encode", "cleanup", "returned"} =>
        LET k == get_preset(run[TaskJob].style_preset).words_per_line
            n == Len(run[TaskJob].transcript)
        IN  /\ Len(run[TaskJob].segments) = n
            /\ \A i \in 1..n :
                Len(run[TaskJob].segments[i].words) = Min(k, n - i + 1)

====
